---- MODULE Spec2Model ----
(***************************************************************************)
(* Settlement state machine of the SwiftyTask contracts: UserManager,      *)
(* TaskManager, DisputeManager and AutomationManager behind the            *)
(* SwiftyTaskMain orchestrator, with the ERC20 payment token and the price *)
(* feed as external collaborators.                                         *)
(*                                                                         *)
(* Every external function is one action.  A call whose require fails      *)
(* reverts: the action leaves every variable unchanged.  Time is counted   *)
(* in days.  Strings (title, description, proposal, reason, skills) are    *)
(* kept only as far as a require reads them (their length).                *)
(***************************************************************************)
EXTENDS Integers, Sequences, FiniteSets

\* ------------------------------------------------------------ addresses
Users == {"u1", "u2", "u3"}
Zero == "0x0"
Main == "Main"
TM == "TaskManager"
DM == "DisputeManager"
Deployer == "Deployer"
Arbitrator == "Arbitrator"
Funder == "Funder"
AIM == "AIMatchingManager"
Addrs == Users \cup {Zero, Main, TM, DM, AIM, Deployer, Arbitrator, Funder}
\* msg.sender as a module sees it: an account calling the module directly,
\* or Main when the call is routed through the orchestrator.
Senders == Users \cup {Main}

\* ------------------------------------------------------------ program constants
BID_DEADLINE == 7
DISPUTE_TIMEOUT == 14
MAX_FEE == 1000
DEFAULT_REPUTATION == 75
InitialPlatformFee == 250
FeeDenominator == 10000
TokenScale == 1000000
ClientStakeDivisor == 10
AutoClientPercent == 70
MaxUpkeepBatch == 10
UpkeepScanLimit == 1000
InitialAIMatchingFee == 10
MaxMatchCount == 10
MaxMatchScore == 100

\* ------------------------------------------------------------ bounds
MaxTasks == 1
MaxBids == 2
MaxUsers == 3
MaxTicks == 3
InitialBalance == 600
FundAmount == 300
MaxCalcTokens == 40

StartTime == 1
MaxBatch == 2
MaxSkills == 2
MaxStats == 2
MaxCandidates == 3
MaxResults == 3
TimeStep == BID_DEADLINE
EndTime == StartTime + MaxTicks * TimeStep

TaskIds == 1..MaxTasks
FeeChoices == {MAX_FEE, MAX_FEE + 1}
Percentages == {60, 101}

\* createTask's arguments, the price the feed answers and whether the sender has
\* approved the TaskManager: two valid calls, and one call per failing require.
\* off is the deadline's distance from now.
GoodCreate == [titleLen |-> 1, nSkills |-> 1, budgetUSD |-> 70, off |-> DISPUTE_TIMEOUT,
               price |-> 300000, approved |-> TRUE]
CreateInputs ==
    {GoodCreate,
     [GoodCreate EXCEPT !.titleLen = 0],
     [GoodCreate EXCEPT !.nSkills = 0],
     [GoodCreate EXCEPT !.budgetUSD = 0],
     [GoodCreate EXCEPT !.off = 0],
     [GoodCreate EXCEPT !.price = 0],
     [GoodCreate EXCEPT !.approved = FALSE]}

\* submitBid's arguments: late is estimatedDelivery's distance past the deadline
BidInputs ==
    {[price |-> 60, late |-> 0], [price |-> 0, late |-> 0],
     [price |-> 71, late |-> 0], [price |-> 60, late |-> 1]}

\* submitAIMatches' list argument: two lists every require accepts, and one
\* list per failing require
Match(freelancer, score) == [freelancer |-> freelancer, score |-> score]

MatchLists ==
    {<<Match("u2", 90)>>,
     <<Match("u3", 80), Match("u2", 90)>>,
     <<>>,
     <<Match(Zero, 50)>>,
     <<Match("u2", MaxMatchScore + 1)>>,
     <<Match("u3", 80), Match("u2", MaxMatchScore + 1)>>,
     [i \in 1..(MaxMatchCount + 1) |-> Match("u2", 90)]}

\* completeTask's transfers, counted from 1; 0 stands for none of them
TransferLegs == 0..3

VARIABLES
    users,              \* UserManager.users
    totalUsers,         \* UserManager.totalUsers
    tasks,              \* TaskManager.tasks
    taskBids,           \* TaskManager.taskBids
    nextTaskId,         \* TaskManager.nextTaskId
    platformFee,        \* TaskManager.platformFee
    disputes,           \* DisputeManager.disputes
    disputeArbitrator,  \* DisputeManager.disputeArbitrator
    balance,            \* the payment token's balances
    now,                \* block.timestamp, in days
    upkeep,             \* performData returned by checkUpkeep, not yet performed
    locked,             \* per task: tokens createTask moved into escrow
    paidOut,            \* per task: tokens paid out for it
    calc,               \* inputs and results of the payout arithmetic
    aiMatchingEnabled,  \* AIMatchingManager.aiMatchingEnabled
    taskMatches,        \* AIMatchingManager.taskMatches
    authorizedMatchers, \* AIMatchingManager.authorizedMatchers, as the set it maps to true
    lastPerform,        \* the last direct performUpkeep: its performData and the branch taken per entry
    call                \* the settlement call in progress whose transfers call their recipient

userVars == <<users, totalUsers>>
taskVars == <<tasks, taskBids, nextTaskId, platformFee>>
disputeVars == <<disputes, disputeArbitrator>>
ledgerVars == <<balance, locked, paidOut>>
matchVars == <<aiMatchingEnabled, taskMatches, authorizedMatchers>>
auxVars == <<lastPerform, call>>
vars == <<users, totalUsers, tasks, taskBids, nextTaskId, platformFee, disputes,
          disputeArbitrator, balance, now, upkeep, locked, paidOut, calc, matchVars, auxVars>>

\* ------------------------------------------------------------ data types
ZeroUser == [registered |-> FALSE, reputation |-> 0, completedTasks |-> 0, totalEarned |-> 0]

ZeroTask == [client |-> Zero, budgetUSD |-> 0, budgetTokens |-> 0, deadline |-> 0,
             status |-> "Open", selectedFreelancer |-> Zero, clientStake |-> 0]

ZeroDispute == [initiator |-> Zero, createdAt |-> 0, status |-> "Open"]

NoUpkeep == [needed |-> FALSE, batch |-> <<>>]

NoPerform == [batch |-> <<>>, count |-> 0, log |-> <<>>, reverted |-> FALSE]

NoCall == [op |-> "none", taskId |-> 0, leg |-> 0, tokenReverts |-> FALSE]

CalcIdle == [phase |-> "idle", tokens |-> 0, pct |-> 0, winnerAmount |-> 0, loserAmount |-> 0]

\* ------------------------------------------------------------ payment token
\* IERC20.transfer / transferFrom: moves amt, or fails (insufficient balance,
\* zero receiver).  A failed transfer reverts or returns false, as the token
\* chooses; the callers below say what they do with a false.
transferOk(bal, from, to, amt) == to /= Zero /\ bal[from] >= amt

moved(bal, from, to, amt) == [[bal EXCEPT ![from] = @ - amt] EXCEPT ![to] = @ + amt]

\* ------------------------------------------------------------ UserManager
isUserRegistered(addr) == users[addr].registered

registerUserOk(user) == ~users[user].registered

\* updateReputation without its ceiling and floor
updatedReputationLinear(r, positive) == IF positive THEN r + 5 ELSE r - 5

\* updateReputation whose floor is 0 instead of 1
updatedReputationToZero(r, positive) ==
    IF positive
    THEN (IF r >= 95 THEN 100 ELSE r + 5)
    ELSE (IF r <= 5 THEN 0 ELSE r - 5)

\* updateReputation's new value
updatedReputation(r, positive) ==
    IF positive
    THEN (IF r >= 95 THEN 100 ELSE r + 5)
    ELSE (IF r <= 5 THEN 1 ELSE r - 5)

withReputation(us, user, positive) ==
    [us EXCEPT ![user].reputation = updatedReputation(@, positive)]

withTaskStats(us, freelancer, paymentAmount) ==
    [us EXCEPT ![freelancer].completedTasks = @ + 1,
               ![freelancer].totalEarned = @ + paymentAmount]

RegisterUser(user) ==
    IF registerUserOk(user) /\ totalUsers < MaxUsers
    THEN /\ users' = [users EXCEPT ![user] =
                        [registered |-> user /= Zero, reputation |-> DEFAULT_REPUTATION,
                         completedTasks |-> 0, totalEarned |-> 0]]
         /\ totalUsers' = totalUsers + 1
         /\ UNCHANGED <<taskVars, disputeVars, ledgerVars, now, upkeep, calc, matchVars, auxVars>>
    ELSE UNCHANGED vars

\* Direct call of UserManager.updateReputation, which any account can make
UpdateReputation(user, positive) ==
    IF isUserRegistered(user)
    THEN /\ users' = withReputation(users, user, positive)
         /\ UNCHANGED <<totalUsers, taskVars, disputeVars, ledgerVars, now, upkeep, calc, matchVars, auxVars>>
    ELSE UNCHANGED vars

\* Direct call of UserManager.updateTaskStats, which has no modifier either
UpdateTaskStats(freelancer, paymentAmount) ==
    IF isUserRegistered(freelancer) /\ users[freelancer].completedTasks < MaxStats
    THEN /\ users' = withTaskStats(users, freelancer, paymentAmount)
         /\ UNCHANGED <<totalUsers, taskVars, disputeVars, ledgerVars, now, upkeep, calc, matchVars, auxVars>>
    ELSE UNCHANGED vars

\* ------------------------------------------------------------ Init
InitContracts ==
    /\ users = [a \in Addrs |-> ZeroUser]
    /\ totalUsers = 0
    /\ tasks = [t \in TaskIds |-> ZeroTask]
    /\ taskBids = [t \in TaskIds |-> <<>>]
    /\ nextTaskId = 1
    /\ platformFee = InitialPlatformFee
    /\ disputes = [t \in TaskIds |-> ZeroDispute]
    /\ disputeArbitrator = Arbitrator
    /\ balance = [a \in Addrs |-> IF a \in Users \cup {Funder} THEN InitialBalance ELSE 0]
    /\ now = StartTime
    /\ upkeep = NoUpkeep
    /\ locked = [t \in TaskIds |-> 0]
    /\ paidOut = [t \in TaskIds |-> 0]
    /\ aiMatchingEnabled = [t \in TaskIds |-> FALSE]
    /\ taskMatches = [t \in TaskIds |-> <<>>]
    /\ authorizedMatchers = {}
    /\ lastPerform = NoPerform
    /\ call = NoCall

Init == InitContracts /\ calc = CalcIdle

\* ------------------------------------------------------------ TaskManager
taskExists(taskId) == taskId < nextTaskId /\ taskId > 0

\* _usdToToken; the price is what latestRoundData answers for this call
usdToTokenOk(price) == price > 0

\* _usdToToken rounding up instead of down
usdToTokenRoundedUp(usdAmount, price) == (usdAmount * TokenScale + price - 1) \div price

usdToToken(usdAmount, price) == (usdAmount * TokenScale) \div price

clientStakeOf(tokenAmount) == tokenAmount \div ClientStakeDivisor

\* msg.sender as TaskManager and DisputeManager see it when caller goes through
\* SwiftyTaskMain, which forwards the arguments and nothing else
msgSenderVia(caller) == Main

\* Only an account can have approved the TaskManager: Main never calls approve.
canApprove(sender) == sender \in Users

\* createTask without the require that the deadline is in the future
createTaskOkAnyDeadline(sender, titleLen, nSkills, budgetUSD, deadline, price, approved) ==
    /\ isUserRegistered(sender)
    /\ titleLen > 0
    /\ budgetUSD > 0
    /\ nSkills > 0
    /\ usdToTokenOk(price)
    /\ usdToToken(budgetUSD, price) > 0
    /\ approved /\ canApprove(sender)
    /\ transferOk(balance, sender, TM,
                  usdToToken(budgetUSD, price) + clientStakeOf(usdToToken(budgetUSD, price)))

createTaskOk(sender, titleLen, nSkills, budgetUSD, deadline, price, approved) ==
    /\ isUserRegistered(sender)
    /\ titleLen > 0
    /\ budgetUSD > 0
    /\ deadline > now
    /\ nSkills > 0
    /\ usdToTokenOk(price)
    /\ usdToToken(budgetUSD, price) > 0
    /\ approved /\ canApprove(sender)
    /\ transferOk(balance, sender, TM,
                  usdToToken(budgetUSD, price) + clientStakeOf(usdToToken(budgetUSD, price)))

CreateTask(sender, titleLen, nSkills, budgetUSD, deadline, price, approved) ==
    IF createTaskOk(sender, titleLen, nSkills, budgetUSD, deadline, price, approved)
       /\ nextTaskId <= MaxTasks
    THEN LET tokenAmount == usdToToken(budgetUSD, price)
             clientStake == clientStakeOf(tokenAmount)
             totalRequired == tokenAmount + clientStake
             taskId == nextTaskId
         IN /\ balance' = moved(balance, sender, TM, totalRequired)
            /\ nextTaskId' = nextTaskId + 1
            /\ tasks' = [tasks EXCEPT ![taskId] =
                            [client |-> sender, budgetUSD |-> budgetUSD,
                             budgetTokens |-> tokenAmount, deadline |-> deadline,
                             status |-> "Open", selectedFreelancer |-> Zero,
                             clientStake |-> clientStake]]
            /\ locked' = [locked EXCEPT ![taskId] = totalRequired]
            /\ UNCHANGED <<userVars, taskBids, platformFee, disputeVars, paidOut,
                           now, upkeep, calc, matchVars, auxVars>>
    ELSE UNCHANGED vars

\* the pending-bid loop comparing against the wrong bid status
hasAcceptedBid(bids, sender) ==
    \E i \in 1..Len(bids) : bids[i].freelancer = sender /\ bids[i].status = "Accepted"

hasPendingBid(bids, sender) ==
    \E i \in 1..Len(bids) : bids[i].freelancer = sender /\ bids[i].status = "Pending"

\* submitBid without the require that the bidder is not the client
submitBidOkByClient(sender, taskId, proposedPrice, estimatedDelivery) ==
    /\ taskExists(taskId)
    /\ isUserRegistered(sender)
    /\ tasks[taskId].status = "Open"
    /\ proposedPrice > 0
    /\ proposedPrice <= tasks[taskId].budgetUSD
    /\ estimatedDelivery <= tasks[taskId].deadline
    /\ tasks[taskId].deadline >= BID_DEADLINE
    /\ now <= tasks[taskId].deadline - BID_DEADLINE
    /\ ~hasPendingBid(taskBids[taskId], sender)

\* submitBid without the require that the bid is within the budget
submitBidOkAnyPrice(sender, taskId, proposedPrice, estimatedDelivery) ==
    /\ taskExists(taskId)
    /\ isUserRegistered(sender)
    /\ tasks[taskId].status = "Open"
    /\ tasks[taskId].client /= sender
    /\ proposedPrice > 0
    /\ estimatedDelivery <= tasks[taskId].deadline
    /\ tasks[taskId].deadline >= BID_DEADLINE
    /\ now <= tasks[taskId].deadline - BID_DEADLINE
    /\ ~hasPendingBid(taskBids[taskId], sender)

submitBidOk(sender, taskId, proposedPrice, estimatedDelivery) ==
    /\ taskExists(taskId)
    /\ isUserRegistered(sender)
    /\ tasks[taskId].status = "Open"
    /\ tasks[taskId].client /= sender
    /\ proposedPrice > 0
    /\ proposedPrice <= tasks[taskId].budgetUSD
    /\ estimatedDelivery <= tasks[taskId].deadline
    /\ tasks[taskId].deadline >= BID_DEADLINE
    /\ now <= tasks[taskId].deadline - BID_DEADLINE
    /\ ~hasPendingBid(taskBids[taskId], sender)

SubmitBid(sender, taskId, proposedPrice, estimatedDelivery) ==
    IF /\ taskId \in TaskIds
       /\ submitBidOk(sender, taskId, proposedPrice, estimatedDelivery)
       /\ Len(taskBids[taskId]) < MaxBids
    THEN /\ taskBids' = [taskBids EXCEPT ![taskId] = Append(@,
                            [freelancer |-> sender, proposedPrice |-> proposedPrice,
                             estimatedDelivery |-> estimatedDelivery,
                             status |-> "Pending"])]
         /\ UNCHANGED <<userVars, tasks, nextTaskId, platformFee, disputeVars,
                        ledgerVars, now, upkeep, calc, matchVars, auxVars>>
    ELSE UNCHANGED vars

\* acceptBid without the loop that rejects the other pending bids
acceptedBidsOnly(bids, bidIndex) ==
    [i \in 1..Len(bids) |->
        IF i = bidIndex + 1 THEN [bids[i] EXCEPT !.status = "Accepted"] ELSE bids[i]]

\* the bid array after acceptBid(bidIndex); bidIndex counts from 0
acceptedBids(bids, bidIndex) ==
    [i \in 1..Len(bids) |->
        IF i = bidIndex + 1 THEN [bids[i] EXCEPT !.status = "Accepted"]
        ELSE IF bids[i].status = "Pending" THEN [bids[i] EXCEPT !.status = "Rejected"]
        ELSE bids[i]]

\* acceptBid without its two status requires
acceptBidOkAnyStatus(sender, taskId, bidIndex) ==
    /\ taskExists(taskId)
    /\ tasks[taskId].client = sender
    /\ bidIndex < Len(taskBids[taskId])

\* acceptBid without the onlyClient modifier
acceptBidOkAnyone(sender, taskId, bidIndex) ==
    /\ taskExists(taskId)
    /\ tasks[taskId].status = "Open"
    /\ bidIndex < Len(taskBids[taskId])
    /\ taskBids[taskId][bidIndex + 1].status = "Pending"

acceptBidOk(sender, taskId, bidIndex) ==
    /\ taskExists(taskId)
    /\ tasks[taskId].client = sender
    /\ tasks[taskId].status = "Open"
    /\ bidIndex < Len(taskBids[taskId])
    /\ taskBids[taskId][bidIndex + 1].status = "Pending"

\* acceptBid that, as acceptAIMatch does, records no selectedFreelancer
AcceptBidUnassigned(sender, taskId, bidIndex) ==
    IF taskId \in TaskIds /\ acceptBidOk(sender, taskId, bidIndex)
    THEN /\ tasks' = [tasks EXCEPT ![taskId].status = "Assigned"]
         /\ taskBids' = [taskBids EXCEPT ![taskId] = acceptedBids(@, bidIndex)]
         /\ UNCHANGED <<userVars, nextTaskId, platformFee, disputeVars, ledgerVars,
                        now, upkeep, calc, matchVars, auxVars>>
    ELSE UNCHANGED vars

AcceptBid(sender, taskId, bidIndex) ==
    IF taskId \in TaskIds /\ acceptBidOk(sender, taskId, bidIndex)
    THEN /\ tasks' = [tasks EXCEPT ![taskId].status = "Assigned",
                                   ![taskId].selectedFreelancer =
                                       taskBids[taskId][bidIndex + 1].freelancer]
         /\ taskBids' = [taskBids EXCEPT ![taskId] = acceptedBids(@, bidIndex)]
         /\ UNCHANGED <<userVars, nextTaskId, platformFee, disputeVars, ledgerVars,
                        now, upkeep, calc, matchVars, auxVars>>
    ELSE UNCHANGED vars

platformFeeAmount(budgetTokens, fee) == (budgetTokens * fee) \div FeeDenominator

\* the freelancer's share rounded on its own instead of taken as the remainder
freelancerPaymentRounded(budgetTokens, fee) ==
    (budgetTokens * (FeeDenominator - fee)) \div FeeDenominator

freelancerPayment(budgetTokens, fee) == budgetTokens - platformFeeAmount(budgetTokens, fee)

completeTaskOk(sender, taskId) ==
    /\ taskExists(taskId)
    /\ tasks[taskId].client = sender
    /\ tasks[taskId].status \in {"Assigned", "InProgress"}
    /\ tasks[taskId].selectedFreelancer /= Zero
    /\ platformFeeAmount(tasks[taskId].budgetTokens, platformFee) <= tasks[taskId].budgetTokens
    /\ isUserRegistered(tasks[taskId].selectedFreelancer)
    /\ isUserRegistered(tasks[taskId].client)
    /\ LET task == tasks[taskId]
           fee == platformFeeAmount(task.budgetTokens, platformFee)
           pay == freelancerPayment(task.budgetTokens, platformFee)
           b1 == moved(balance, TM, task.selectedFreelancer, pay)
           b2 == moved(b1, TM, Main, fee)
       IN /\ transferOk(balance, TM, task.selectedFreelancer, pay)
          /\ transferOk(b1, TM, Main, fee)
          /\ transferOk(b2, TM, task.client, task.clientStake)

\* completeTask whose transfers are not wrapped in require: a transfer the
\* token refuses is passed over and the rest of the call goes on
CompleteTaskUnchecked(sender, taskId, refusedLeg) ==
    IF taskId \in TaskIds /\ completeTaskOk(sender, taskId)
    THEN LET task == tasks[taskId]
             fee == platformFeeAmount(task.budgetTokens, platformFee)
             pay == freelancerPayment(task.budgetTokens, platformFee)
             paid1 == IF refusedLeg = 1 THEN 0 ELSE pay
             paid2 == IF refusedLeg = 2 THEN 0 ELSE fee
             paid3 == IF refusedLeg = 3 THEN 0 ELSE task.clientStake
         IN /\ tasks' = [tasks EXCEPT ![taskId].status = "Completed"]
            /\ users' = withReputation(
                            withReputation(
                                withTaskStats(users, task.selectedFreelancer, pay),
                                task.selectedFreelancer, TRUE),
                            task.client, TRUE)
            /\ balance' = moved(moved(moved(balance, TM, task.selectedFreelancer, paid1),
                                      TM, Main, paid2),
                                TM, task.client, paid3)
            /\ paidOut' = [paidOut EXCEPT ![taskId] = @ + paid1 + paid2 + paid3]
            /\ UNCHANGED <<totalUsers, taskBids, nextTaskId, platformFee, disputeVars,
                           locked, now, upkeep, calc, matchVars, auxVars>>
    ELSE UNCHANGED vars

\* refusedLeg is the transfer the token refuses for a reason of its own
\* (1 freelancer payment, 2 platform fee, 3 stake return), or 0 for none;
\* each transfer sits in a require, so a refusal reverts the call
CompleteTask(sender, taskId, refusedLeg) ==
    IF taskId \in TaskIds /\ completeTaskOk(sender, taskId) /\ refusedLeg = 0
    THEN LET task == tasks[taskId]
             fee == platformFeeAmount(task.budgetTokens, platformFee)
             pay == freelancerPayment(task.budgetTokens, platformFee)
         IN /\ tasks' = [tasks EXCEPT ![taskId].status = "Completed"]
            /\ users' = withReputation(
                            withReputation(
                                withTaskStats(users, task.selectedFreelancer, pay),
                                task.selectedFreelancer, TRUE),
                            task.client, TRUE)
            /\ balance' = moved(moved(moved(balance, TM, task.selectedFreelancer, pay),
                                      TM, Main, fee),
                                TM, task.client, task.clientStake)
            /\ paidOut' = [paidOut EXCEPT ![taskId] = @ + pay + fee + task.clientStake]
            /\ UNCHANGED <<totalUsers, taskBids, nextTaskId, platformFee, disputeVars,
                           locked, now, upkeep, calc, matchVars, auxVars>>
    ELSE UNCHANGED vars

\* updatePlatformFee without the require on the new fee
updatePlatformFeeOkAnyFee(caller, viaMain, newFee) ==
    /\ viaMain
    /\ caller = Deployer

\* caller reaches TaskManager.updatePlatformFee directly, or as Main through
\* SwiftyTaskMain.updatePlatformFee (onlyOwner: the deployer)
updatePlatformFeeOk(caller, viaMain, newFee) ==
    /\ viaMain
    /\ caller = Deployer
    /\ newFee <= MAX_FEE

UpdatePlatformFee(caller, viaMain, newFee) ==
    IF updatePlatformFeeOk(caller, viaMain, newFee)
    THEN /\ platformFee' = newFee
         /\ UNCHANGED <<userVars, tasks, taskBids, nextTaskId, disputeVars, ledgerVars,
                        now, upkeep, calc, matchVars, auxVars>>
    ELSE UNCHANGED vars

Tick ==
    /\ now + TimeStep <= EndTime
    /\ now' = now + TimeStep
    /\ UNCHANGED <<userVars, taskVars, disputeVars, ledgerVars, upkeep, calc, matchVars, auxVars>>

\* ------------------------------------------------------------ DisputeManager
getTask(taskId) == IF taskId \in TaskIds THEN tasks[taskId] ELSE ZeroTask

getDispute(ds, taskId) == IF taskId \in TaskIds THEN ds[taskId] ELSE ZeroDispute

\* createDispute without the require that no dispute exists yet
createDisputeOkRepeated(sender, taskId) ==
    /\ sender = getTask(taskId).client \/ sender = getTask(taskId).selectedFreelancer
    /\ getTask(taskId).status \in {"Assigned", "InProgress", "UnderReview"}

createDisputeOk(sender, taskId) ==
    /\ sender = getTask(taskId).client \/ sender = getTask(taskId).selectedFreelancer
    /\ getTask(taskId).status \in {"Assigned", "InProgress", "UnderReview"}
    /\ getDispute(disputes, taskId).createdAt = 0

\* createDispute that also marks the task Disputed, as its comment intends
CreateDisputeMarking(sender, taskId) ==
    IF taskId \in TaskIds /\ createDisputeOk(sender, taskId)
    THEN /\ disputes' = [disputes EXCEPT ![taskId] =
                            [initiator |-> sender, createdAt |-> now, status |-> "Open"]]
         /\ tasks' = [tasks EXCEPT ![taskId].status = "Disputed"]
         /\ UNCHANGED <<userVars, taskBids, nextTaskId, platformFee, disputeArbitrator,
                        ledgerVars, now, upkeep, calc, matchVars, auxVars>>
    ELSE UNCHANGED vars

CreateDispute(sender, taskId) ==
    IF taskId \in TaskIds /\ createDisputeOk(sender, taskId)
    THEN /\ disputes' = [disputes EXCEPT ![taskId] =
                            [initiator |-> sender, createdAt |-> now, status |-> "Open"]]
         /\ UNCHANGED <<userVars, taskVars, disputeArbitrator, ledgerVars, now, upkeep, calc, matchVars, auxVars>>
    ELSE UNCHANGED vars

onlyArbitrator(sender) == sender = disputeArbitrator \/ sender = Main

winnerAmountOf(totalAmount, paymentPercentage) == (totalAmount * paymentPercentage) \div 100

\* the loser's share rounded on its own instead of taken as the remainder
loserAmountRounded(totalAmount, paymentPercentage) ==
    (totalAmount * (100 - paymentPercentage)) \div 100

loserAmountOf(totalAmount, paymentPercentage) ==
    totalAmount - winnerAmountOf(totalAmount, paymentPercentage)

loserOf(task, winner) == IF winner = task.client THEN task.selectedFreelancer ELSE task.client

\* balances after resolveDispute's two guarded transfers out of the
\* DisputeManager's own balance; ok is false when a require on them fails
resolvePayout(bal, winner, loser, winnerAmount, loserAmount) ==
    LET ok1 == winnerAmount = 0 \/ transferOk(bal, DM, winner, winnerAmount)
        b1 == IF winnerAmount > 0 /\ ok1 THEN moved(bal, DM, winner, winnerAmount) ELSE bal
        ok2 == loserAmount = 0 \/ transferOk(b1, DM, loser, loserAmount)
        b2 == IF loserAmount > 0 /\ ok2 THEN moved(b1, DM, loser, loserAmount) ELSE b1
    IN [ok |-> ok1 /\ ok2, bal |-> b2]

\* the message of resolveDispute's first failing require, "" when none fails
resolveDisputeRevert(sender, taskId, winner, paymentPercentage) ==
    LET task == getTask(taskId)
        total == task.budgetTokens + task.clientStake
        winnerAmount == winnerAmountOf(total, paymentPercentage)
        loserAmount == loserAmountOf(total, paymentPercentage)
        loser == loserOf(task, winner)
    IN IF ~onlyArbitrator(sender) THEN "Not authorized arbitrator"
       ELSE IF task.status /= "Disputed" THEN "Task not disputed"
       ELSE IF getDispute(disputes, taskId).status /= "Open" THEN "Dispute not open"
       ELSE IF paymentPercentage > 100 THEN "Invalid percentage"
       ELSE IF ~(winner = task.client \/ winner = task.selectedFreelancer)
       THEN "Winner must be client or freelancer"
       ELSE IF winnerAmount > 0 /\ ~transferOk(balance, DM, winner, winnerAmount)
       THEN "Winner payment failed"
       ELSE IF ~resolvePayout(balance, winner, loser, winnerAmount, loserAmount).ok
       THEN "Loser payment failed"
       ELSE IF ~(isUserRegistered(winner) /\ isUserRegistered(loser))
       THEN "User not registered"
       ELSE ""

resolveDisputeOk(sender, taskId, winner, paymentPercentage) ==
    LET task == getTask(taskId)
        total == task.budgetTokens + task.clientStake
    IN /\ onlyArbitrator(sender)
       /\ task.status = "Disputed"
       /\ getDispute(disputes, taskId).status = "Open"
       /\ paymentPercentage <= 100
       /\ winner = task.client \/ winner = task.selectedFreelancer
       /\ resolvePayout(balance, winner, loserOf(task, winner),
                        winnerAmountOf(total, paymentPercentage),
                        loserAmountOf(total, paymentPercentage)).ok
       /\ isUserRegistered(winner)
       /\ isUserRegistered(loserOf(task, winner))

ResolveDispute(sender, taskId, winner, paymentPercentage) ==
    IF taskId \in TaskIds /\ resolveDisputeOk(sender, taskId, winner, paymentPercentage)
    THEN LET task == getTask(taskId)
             total == task.budgetTokens + task.clientStake
             loser == loserOf(task, winner)
         IN /\ disputes' = [disputes EXCEPT ![taskId].status = "Resolved"]
            /\ balance' = resolvePayout(balance, winner, loser,
                                        winnerAmountOf(total, paymentPercentage),
                                        loserAmountOf(total, paymentPercentage)).bal
            /\ paidOut' = [paidOut EXCEPT ![taskId] = @ + total]
            /\ users' = withReputation(withReputation(users, winner, TRUE), loser, FALSE)
            /\ UNCHANGED <<totalUsers, taskVars, disputeArbitrator, locked, now, upkeep, calc, matchVars, auxVars>>
    ELSE UNCHANGED vars

autoClientAmount(totalAmount) == (totalAmount * AutoClientPercent) \div 100

autoFreelancerAmount(totalAmount) == totalAmount - autoClientAmount(totalAmount)

\* autoResolveDispute on the state st = [disputes, balance, paidOut].  Its two
\* transfers are not checked: a failing one reverts the call when the token
\* reverts (tokenReverts), and is passed over when the token returns false.
autoResolve(st, taskId, tokenReverts) ==
    LET task == getTask(taskId)
        dispute == getDispute(st.disputes, taskId)
        total == task.budgetTokens + task.clientStake
        clientAmount == autoClientAmount(total)
        freelancerAmount == autoFreelancerAmount(total)
        ok1 == transferOk(st.balance, DM, task.client, clientAmount)
        b1 == IF ok1 THEN moved(st.balance, DM, task.client, clientAmount) ELSE st.balance
        pays2 == task.selectedFreelancer /= Zero /\ freelancerAmount > 0
        ok2 == ~pays2 \/ transferOk(b1, DM, task.selectedFreelancer, freelancerAmount)
        b2 == IF pays2 /\ ok2 THEN moved(b1, DM, task.selectedFreelancer, freelancerAmount)
              ELSE b1
        paid == (IF ok1 THEN clientAmount ELSE 0) + (IF pays2 /\ ok2 THEN freelancerAmount ELSE 0)
    IN IF /\ dispute.status = "Open"
          /\ now > dispute.createdAt + DISPUTE_TIMEOUT
          /\ (ok1 /\ ok2) \/ ~tokenReverts
       THEN [ok |-> TRUE,
             disputes |-> IF taskId \in TaskIds
                          THEN [st.disputes EXCEPT ![taskId].status = "Resolved"]
                          ELSE st.disputes,
             balance |-> b2,
             paidOut |-> IF taskId \in TaskIds
                         THEN [st.paidOut EXCEPT ![taskId] = @ + paid]
                         ELSE st.paidOut]
       ELSE [ok |-> FALSE, disputes |-> st.disputes, balance |-> st.balance,
             paidOut |-> st.paidOut]

settlement == [disputes |-> disputes, balance |-> balance, paidOut |-> paidOut]

\* autoResolveDispute that also adjusts reputations, as resolveDispute does
AutoResolveDisputeRated(sender, taskId, tokenReverts) ==
    LET r == autoResolve(settlement, taskId, tokenReverts)
        task == getTask(taskId)
    IN IF taskId \in TaskIds /\ r.ok /\ isUserRegistered(task.client)
          /\ isUserRegistered(task.selectedFreelancer)
       THEN /\ disputes' = r.disputes
            /\ balance' = r.balance
            /\ paidOut' = r.paidOut
            /\ users' = withReputation(withReputation(users, task.client, TRUE),
                                       task.selectedFreelancer, FALSE)
            /\ UNCHANGED <<totalUsers, taskVars, disputeArbitrator, locked, now, upkeep, calc, matchVars, auxVars>>
       ELSE UNCHANGED vars

AutoResolveDispute(sender, taskId, tokenReverts) ==
    LET r == autoResolve(settlement, taskId, tokenReverts)
    IN IF taskId \in TaskIds /\ r.ok
       THEN /\ disputes' = r.disputes
            /\ balance' = r.balance
            /\ paidOut' = r.paidOut
            /\ UNCHANGED <<userVars, taskVars, disputeArbitrator, locked, now, upkeep, calc, matchVars, auxVars>>
       ELSE UNCHANGED vars

\* ------------------------------------------------------------ payment token, direct use
\* An account sends tokens of its own to a module's address.
TokenTransfer(from, to, amt) ==
    IF transferOk(balance, from, to, amt) /\ balance[to] + amt <= FundAmount
    THEN /\ balance' = moved(balance, from, to, amt)
         /\ UNCHANGED <<userVars, taskVars, disputeVars, locked, paidOut, now, upkeep, calc, matchVars, auxVars>>
    ELSE UNCHANGED vars

\* ------------------------------------------------------------ AutomationManager
upkeepQualifies(taskId) ==
    LET task == getTask(taskId)
        dispute == getDispute(disputes, taskId)
    IN \/ task.status = "Open" /\ now > task.deadline
       \/ /\ task.status = "Disputed"
          /\ dispute.createdAt > 0
          /\ now > dispute.createdAt + DISPUTE_TIMEOUT

RECURSIVE upkeepScan(_, _)
upkeepScan(i, expiredTasks) ==
    IF i > UpkeepScanLimit \/ Len(expiredTasks) >= MaxUpkeepBatch
    THEN expiredTasks
    ELSE upkeepScan(i + 1, IF upkeepQualifies(i) THEN Append(expiredTasks, i)
                           ELSE expiredTasks)

checkUpkeep ==
    LET expiredTasks == upkeepScan(1, <<>>)
    IN [needed |-> Len(expiredTasks) > 0, batch |-> expiredTasks]

\* The automation node keeps what checkUpkeep answered until it performs it.
CheckUpkeep ==
    /\ upkeep' = checkUpkeep
    /\ UNCHANGED <<userVars, taskVars, disputeVars, ledgerVars, now, calc, matchVars, auxVars>>

\* _refundExpiredTask on the state st: it reads a balance and moves nothing
refundExpiredTask(st, taskId) == st

\* performUpkeep's loop that gives up at the first entry it has nothing to do for
RECURSIVE performTraceAborting(_, _, _, _, _)
performTraceAborting(batch, i, st, log, tokenReverts) ==
    IF i > Len(batch) THEN [st |-> st, log |-> log]
    ELSE LET taskId == batch[i]
             task == getTask(taskId)
             r == autoResolve(st, taskId, tokenReverts)
         IN IF task.status = "Open" /\ now > task.deadline
            THEN performTraceAborting(batch, i + 1, refundExpiredTask(st, taskId),
                                      Append(log, "refund"), tokenReverts)
            ELSE IF task.status = "Disputed" /\ r.ok
            THEN performTraceAborting(batch, i + 1,
                                      [disputes |-> r.disputes, balance |-> r.balance,
                                       paidOut |-> r.paidOut],
                                      Append(log, "resolved"), tokenReverts)
            ELSE [st |-> st, log |-> log]

\* performUpkeep's loop from entry i on: the settlement state it leaves, and
\* per entry the branch it took ("refund", "resolved", "caught" for an
\* autoResolveDispute that reverted inside try/catch, "none")
RECURSIVE performTrace(_, _, _, _, _)
performTrace(batch, i, st, log, tokenReverts) ==
    IF i > Len(batch) THEN [st |-> st, log |-> log]
    ELSE LET taskId == batch[i]
             task == getTask(taskId)
             r == autoResolve(st, taskId, tokenReverts)
         IN IF task.status = "Open" /\ now > task.deadline
            THEN performTrace(batch, i + 1, refundExpiredTask(st, taskId),
                              Append(log, "refund"), tokenReverts)
            ELSE IF task.status = "Disputed" /\ r.ok
            THEN performTrace(batch, i + 1,
                              [disputes |-> r.disputes, balance |-> r.balance,
                               paidOut |-> r.paidOut],
                              Append(log, "resolved"), tokenReverts)
            ELSE IF task.status = "Disputed"
            THEN performTrace(batch, i + 1, st, Append(log, "caught"), tokenReverts)
            ELSE performTrace(batch, i + 1, st, Append(log, "none"), tokenReverts)

performEntries(batch, i, st, tokenReverts) == performTrace(batch, i, st, <<>>, tokenReverts).st

\* performUpkeep called by any account with performData of its own choosing:
\* an array and a count; reading past the array's end reverts the whole call
PerformUpkeepDirect(batch, count, tokenReverts) ==
    LET after == performTrace(SubSeq(batch, 1, count), 1, settlement, <<>>, tokenReverts)
    IN IF count > Len(batch)
       THEN /\ lastPerform' = [batch |-> batch, count |-> count, log |-> <<>>,
                               reverted |-> TRUE]
            /\ UNCHANGED <<userVars, taskVars, disputeVars, ledgerVars, now, upkeep, calc,
                           matchVars, call>>
       ELSE /\ disputes' = after.st.disputes
            /\ balance' = after.st.balance
            /\ paidOut' = after.st.paidOut
            /\ lastPerform' = [batch |-> batch, count |-> count, log |-> after.log,
                               reverted |-> FALSE]
            /\ UNCHANGED <<userVars, taskVars, disputeArbitrator, locked, now, upkeep, calc,
                           matchVars, call>>

PerformUpkeep(tokenReverts) ==
    /\ upkeep.needed
    /\ LET after == performEntries(upkeep.batch, 1, settlement, tokenReverts)
       IN /\ disputes' = after.disputes
          /\ balance' = after.balance
          /\ paidOut' = after.paidOut
    /\ upkeep' = NoUpkeep
    /\ UNCHANGED <<userVars, taskVars, disputeArbitrator, locked, now, calc, matchVars, auxVars>>

\* ------------------------------------------------------------ AIMatchingManager
onlyAuthorizedMatcher(sender) == sender \in authorizedMatchers \/ sender = Main

\* submitAIMatches' loop without the require on the score
RECURSIVE pushMatchesAnyScore(_, _, _)
pushMatchesAnyScore(matches, i, stored) ==
    IF i > Len(matches) THEN [ok |-> TRUE, stored |-> stored]
    ELSE IF /\ matches[i].freelancer /= Zero
            /\ isUserRegistered(matches[i].freelancer)
         THEN pushMatchesAnyScore(matches, i + 1, Append(stored, matches[i]))
         ELSE [ok |-> FALSE, stored |-> stored]

\* submitAIMatches' loop from entry i on: the list pushed so far, and ok false
\* at the first entry that fails a require
RECURSIVE pushMatches(_, _, _)
pushMatches(matches, i, stored) ==
    IF i > Len(matches) THEN [ok |-> TRUE, stored |-> stored]
    ELSE IF /\ matches[i].freelancer /= Zero
            /\ matches[i].score <= MaxMatchScore
            /\ isUserRegistered(matches[i].freelancer)
         THEN pushMatches(matches, i + 1, Append(stored, matches[i]))
         ELSE [ok |-> FALSE, stored |-> stored]

submitAIMatchesOk(sender, taskId, matches) ==
    /\ onlyAuthorizedMatcher(sender)
    /\ taskId \in TaskIds
    /\ aiMatchingEnabled[taskId]
    /\ getTask(taskId).status = "Open"
    /\ Len(matches) > 0
    /\ Len(matches) <= MaxMatchCount
    /\ pushMatches(matches, 1, <<>>).ok

SubmitAIMatches(sender, taskId, matches) ==
    IF submitAIMatchesOk(sender, taskId, matches)
    THEN /\ taskMatches' = [taskMatches EXCEPT ![taskId] = pushMatches(matches, 1, <<>>).stored]
         /\ UNCHANGED <<userVars, taskVars, disputeVars, ledgerVars, now, upkeep, calc,
                        aiMatchingEnabled, authorizedMatchers, auxVars>>
    ELSE UNCHANGED vars

matchingFeeAmount(budgetTokens) == (budgetTokens * InitialAIMatchingFee) \div FeeDenominator

acceptAIMatchOk(sender, taskId, matchIndex, tokenReverts) ==
    /\ sender = getTask(taskId).client
    /\ taskId \in TaskIds
    /\ aiMatchingEnabled[taskId]
    /\ getTask(taskId).status = "Open"
    /\ matchIndex < Len(taskMatches[taskId])
    /\ \/ matchingFeeAmount(getTask(taskId).budgetTokens) = 0
       \/ transferOk(balance, AIM, Main, matchingFeeAmount(getTask(taskId).budgetTokens))
       \/ ~tokenReverts

\* acceptAIMatch that assigns the task to the freelancer of the chosen match
AcceptAIMatchAssigning(sender, taskId, matchIndex, tokenReverts) ==
    IF acceptAIMatchOk(sender, taskId, matchIndex, tokenReverts)
    THEN /\ tasks' = [tasks EXCEPT ![taskId].status = "Assigned",
                                   ![taskId].selectedFreelancer =
                                       taskMatches[taskId][matchIndex + 1].freelancer]
         /\ UNCHANGED <<userVars, taskBids, nextTaskId, platformFee, disputeVars, ledgerVars,
                        now, upkeep, calc, matchVars, auxVars>>
    ELSE UNCHANGED vars

\* acceptAIMatch: the fee transfer out of the AIMatchingManager's own balance
\* is not checked, and the task is not touched (part_001:866-867)
AcceptAIMatch(sender, taskId, matchIndex, tokenReverts) ==
    IF acceptAIMatchOk(sender, taskId, matchIndex, tokenReverts)
    THEN LET fee == matchingFeeAmount(getTask(taskId).budgetTokens)
         IN /\ balance' = IF fee > 0 /\ transferOk(balance, AIM, Main, fee)
                          THEN moved(balance, AIM, Main, fee)
                          ELSE balance
            /\ UNCHANGED <<userVars, taskVars, disputeVars, locked, paidOut, now, upkeep,
                           calc, matchVars, auxVars>>
    ELSE UNCHANGED vars

toggleAIMatchingOk(sender, taskId) ==
    /\ taskId \in TaskIds
    /\ sender = getTask(taskId).client
    /\ getTask(taskId).status = "Open"

ToggleAIMatching(sender, taskId, enabled) ==
    IF toggleAIMatchingOk(sender, taskId)
    THEN /\ aiMatchingEnabled' = [aiMatchingEnabled EXCEPT ![taskId] = enabled]
         /\ UNCHANGED <<userVars, taskVars, disputeVars, ledgerVars, now, upkeep, calc,
                        taskMatches, authorizedMatchers, auxVars>>
    ELSE UNCHANGED vars

\* caller reaches AIMatchingManager.setAuthorizedMatcher directly, or as Main
\* through SwiftyTaskMain.setAuthorizedMatcher (onlyOwner: the deployer)
setAuthorizedMatcherOk(caller, viaMain, matcher) ==
    /\ viaMain
    /\ caller = Deployer
    /\ matcher /= Zero

SetAuthorizedMatcher(caller, viaMain, matcher, authorized) ==
    IF setAuthorizedMatcherOk(caller, viaMain, matcher)
    THEN /\ authorizedMatchers' = IF authorized THEN authorizedMatchers \cup {matcher}
                                  ELSE authorizedMatchers \ {matcher}
         /\ UNCHANGED <<userVars, taskVars, disputeVars, ledgerVars, now, upkeep, calc,
                        aiMatchingEnabled, taskMatches, auxVars>>
    ELSE UNCHANGED vars

\* enableAIMatching has no modifier and no require
EnableAIMatching(sender, taskId) ==
    IF taskId \in TaskIds
    THEN /\ aiMatchingEnabled' = [aiMatchingEnabled EXCEPT ![taskId] = TRUE]
         /\ UNCHANGED <<userVars, taskVars, disputeVars, ledgerVars, now, upkeep, calc,
                        taskMatches, authorizedMatchers, auxVars>>
    ELSE UNCHANGED vars

\* ------------------------------------------------------------ payout arithmetic alone
CalcInputs ==
    [phase : {"input"}, tokens : 1..MaxCalcTokens, pct : 0..101,
     winnerAmount : {0}, loserAmount : {0}]

CalcTotal == calc.tokens + clientStakeOf(calc.tokens)

\* lines 105 and 112-114 of resolveDispute on the inputs drawn
CalcResolve ==
    /\ calc.phase = "input"
    /\ calc.pct <= 100
    /\ calc' = [calc EXCEPT !.phase = "done",
                            !.winnerAmount = winnerAmountOf(CalcTotal, calc.pct),
                            !.loserAmount = loserAmountOf(CalcTotal, calc.pct)]
    /\ UNCHANGED <<userVars, taskVars, disputeVars, ledgerVars, now, upkeep, matchVars, auxVars>>

Registrable == Users \cup {Main}

Next ==
    \/ \E user \in Registrable : RegisterUser(user)
    \/ \E sender \in {"u1", Main}, in \in CreateInputs :
            CreateTask(sender, in.titleLen, in.nSkills, in.budgetUSD, now + in.off,
                       in.price, in.approved)
    \/ \E sender \in Senders, taskId \in TaskIds, in \in BidInputs :
            SubmitBid(sender, taskId, in.price, tasks[taskId].deadline + in.late)
    \/ \E sender \in {"u1", "u2", Main}, taskId \in TaskIds, bidIndex \in 0..MaxBids :
            AcceptBid(sender, taskId, bidIndex)
    \/ \E sender \in {"u1", "u2", Main}, taskId \in TaskIds, refusedLeg \in TransferLegs :
            CompleteTask(sender, taskId, refusedLeg)
    \/ \E caller \in {Deployer, "u1"}, viaMain \in BOOLEAN, newFee \in FeeChoices :
            UpdatePlatformFee(caller, viaMain, newFee)
    \/ \E sender \in Senders, taskId \in TaskIds : CreateDispute(sender, taskId)
    \/ \E sender \in {Arbitrator, Main, "u1"}, taskId \in TaskIds, winner \in {"u1", "u2"},
          pct \in Percentages :
            ResolveDispute(sender, taskId, winner, pct)
    \/ \E taskId \in TaskIds, tokenReverts \in BOOLEAN :
            AutoResolveDispute("u3", taskId, tokenReverts)
    \/ TokenTransfer(Funder, DM, FundAmount)
    \/ CheckUpkeep
    \/ \E tokenReverts \in BOOLEAN : PerformUpkeep(tokenReverts)
    \/ Tick

Spec == Init /\ [][Next]_vars

\* The automation network keeps checking and performing, and time passes.
FairSpec ==
    /\ Init
    /\ [][Next]_vars
    /\ WF_vars(Tick)
    /\ WF_vars(CheckUpkeep)
    /\ WF_vars(\E tokenReverts \in BOOLEAN : PerformUpkeep(tokenReverts))

\* Registration followed by any sequence of reputation updates
NextRep ==
    \/ \E user \in {"u1", "u2"} : RegisterUser(user)
    \/ \E user \in Users, positive \in BOOLEAN : UpdateReputation(user, positive)

RepSpec == Init /\ [][NextRep]_vars

\* Tasks from creation to completion or dispute, together with
\* UserManager.updateTaskStats called directly
NextStats ==
    \/ \E user \in {"u1", "u2"} : RegisterUser(user)
    \/ \E in \in CreateInputs :
            CreateTask("u1", in.titleLen, in.nSkills, in.budgetUSD, now + in.off,
                       in.price, in.approved)
    \/ \E taskId \in TaskIds, in \in BidInputs :
            SubmitBid("u2", taskId, in.price, tasks[taskId].deadline + in.late)
    \/ \E taskId \in TaskIds, bidIndex \in 0..MaxBids : AcceptBid("u1", taskId, bidIndex)
    \/ \E taskId \in TaskIds, refusedLeg \in TransferLegs :
            CompleteTask("u1", taskId, refusedLeg)
    \/ \E sender \in {"u1", "u2"}, taskId \in TaskIds : CreateDispute(sender, taskId)
    \/ \E taskId \in TaskIds, tokenReverts \in BOOLEAN :
            AutoResolveDispute("u3", taskId, tokenReverts)
    \/ TokenTransfer(Funder, DM, FundAmount)
    \/ \E freelancer \in Users, paymentAmount \in {0, FundAmount} :
            UpdateTaskStats(freelancer, paymentAmount)
    \/ Tick

StatsSpec == Init /\ [][NextStats]_vars

\* Tasks, bids and disputes together with the AI matching entry points
NextMatch ==
    \/ \E user \in Users : RegisterUser(user)
    \/ \E in \in CreateInputs :
            CreateTask("u1", in.titleLen, in.nSkills, in.budgetUSD, now + in.off,
                       in.price, in.approved)
    \/ \E sender \in Users, taskId \in TaskIds, in \in BidInputs :
            SubmitBid(sender, taskId, in.price, tasks[taskId].deadline + in.late)
    \/ \E sender \in {"u1", "u2"}, taskId \in TaskIds, bidIndex \in 0..MaxBids :
            AcceptBid(sender, taskId, bidIndex)
    \/ \E sender \in {"u1", "u2"}, taskId \in TaskIds, refusedLeg \in TransferLegs :
            CompleteTask(sender, taskId, refusedLeg)
    \/ \E sender \in {"u1", "u2"}, taskId \in TaskIds : CreateDispute(sender, taskId)
    \/ \E taskId \in TaskIds, tokenReverts \in BOOLEAN :
            AutoResolveDispute("u3", taskId, tokenReverts)
    \/ \E sender \in {"u3"}, taskId \in TaskIds : EnableAIMatching(sender, taskId)
    \/ \E sender \in {"u1", "u2"}, taskId \in TaskIds, enabled \in BOOLEAN :
            ToggleAIMatching(sender, taskId, enabled)
    \/ \E caller \in {Deployer, "u3"}, viaMain \in BOOLEAN, authorized \in BOOLEAN :
            SetAuthorizedMatcher(caller, viaMain, "u3", authorized)
    \/ \E sender \in {"u3", Main}, taskId \in TaskIds, matches \in MatchLists :
            SubmitAIMatches(sender, taskId, matches)
    \/ \E sender \in {"u1", "u2"}, taskId \in TaskIds, matchIndex \in 0..2,
          tokenReverts \in BOOLEAN :
            AcceptAIMatch(sender, taskId, matchIndex, tokenReverts)
    \/ Tick

MatchSpec == Init /\ [][NextMatch]_vars

\* performData an account can hand to performUpkeep: ids of created and of
\* missing tasks, in any order
PerformBatches ==
    UNION {[1..n -> 1..(MaxTasks + 1)] : n \in 0..MaxBatch}

\* Tasks and disputes together with performUpkeep called directly
NextSweep ==
    \/ \E user \in {"u1", "u2"} : RegisterUser(user)
    \/ \E in \in CreateInputs :
            CreateTask("u1", in.titleLen, in.nSkills, in.budgetUSD, now + in.off,
                       in.price, in.approved)
    \/ \E taskId \in TaskIds, in \in BidInputs :
            SubmitBid("u2", taskId, in.price, tasks[taskId].deadline + in.late)
    \/ \E taskId \in TaskIds, bidIndex \in 0..MaxBids : AcceptBid("u1", taskId, bidIndex)
    \/ \E sender \in {"u1", "u2"}, taskId \in TaskIds : CreateDispute(sender, taskId)
    \/ \E taskId \in TaskIds, tokenReverts \in BOOLEAN :
            AutoResolveDispute("u3", taskId, tokenReverts)
    \/ TokenTransfer(Funder, DM, FundAmount)
    \/ \E batch \in PerformBatches, count \in 0..(MaxBatch + 1), tokenReverts \in BOOLEAN :
            PerformUpkeepDirect(batch, count, tokenReverts)
    \/ Tick

SweepSpec == Init /\ [][NextSweep]_vars

\* ------------------------------------------------------------ settlement calls, transfer by transfer
\* A settlement call taken one outbound transfer at a time, with a token that
\* calls the recipient of each transfer, who may call back into the contracts
\* before the outer call goes on.

\* the outbound transfers of the call in progress, in the code's order
legsOf(c) ==
    LET task == getTask(c.taskId)
        total == task.budgetTokens + task.clientStake
    IN IF c.op = "completeTask"
       THEN <<[from |-> TM, to |-> task.selectedFreelancer,
               amount |-> freelancerPayment(task.budgetTokens, platformFee)],
              [from |-> TM, to |-> Main,
               amount |-> platformFeeAmount(task.budgetTokens, platformFee)],
              [from |-> TM, to |-> task.client, amount |-> task.clientStake]>>
       ELSE IF c.op = "autoResolveDispute"
       THEN <<[from |-> DM, to |-> task.client, amount |-> autoClientAmount(total)]>>
            \o (IF task.selectedFreelancer /= Zero /\ autoFreelancerAmount(total) > 0
                THEN <<[from |-> DM, to |-> task.selectedFreelancer,
                        amount |-> autoFreelancerAmount(total)]>>
                ELSE <<>>)
       ELSE <<>>

world ==
    [tasks |-> tasks, users |-> users, disputes |-> disputes, balance |-> balance,
     paidOut |-> paidOut]

\* one transfer of the call in progress; a transfer the token refuses by
\* returning false moves nothing (completeTask's are known to succeed when it
\* begins, autoResolveDispute's are unchecked)
legApplied(w, leg, taskId) ==
    IF transferOk(w.balance, leg.from, leg.to, leg.amount)
    THEN [w EXCEPT !.balance = moved(w.balance, leg.from, leg.to, leg.amount),
                   !.paidOut[taskId] = @ + leg.amount]
    ELSE w

Callbacks == {"none", "completeTask", "resolveDispute", "autoResolveDispute"}

\* the recipient's call back into one of the three settlement functions for the
\* task of the call in progress c; w is returned unchanged when the nested call
\* reverts.  TaskManager's guard is held while completeTask is in progress,
\* DisputeManager's only while resolveDispute is; autoResolveDispute has none.
nestedCall(w, c, callback, sender) ==
    LET taskId == c.taskId
        task == w.tasks[taskId]
        fee == platformFeeAmount(task.budgetTokens, platformFee)
        pay == freelancerPayment(task.budgetTokens, platformFee)
        total == task.budgetTokens + task.clientStake
        auto == autoResolve([disputes |-> w.disputes, balance |-> w.balance,
                             paidOut |-> w.paidOut], taskId, c.tokenReverts)
    IN IF callback = "completeTask" /\ c.op /= "completeTask"
          /\ w.tasks = tasks /\ w.balance[TM] = balance[TM]
          /\ completeTaskOk(sender, taskId)
       THEN [w EXCEPT !.tasks[taskId].status = "Completed",
                      !.users = withReputation(
                                    withReputation(
                                        withTaskStats(w.users, task.selectedFreelancer, pay),
                                        task.selectedFreelancer, TRUE),
                                    task.client, TRUE),
                      !.balance = moved(moved(moved(w.balance, TM, task.selectedFreelancer, pay),
                                              TM, Main, fee),
                                        TM, task.client, task.clientStake),
                      !.paidOut[taskId] = @ + pay + fee + task.clientStake]
       ELSE IF callback = "resolveDispute" /\ c.op /= "resolveDispute"
               /\ w.disputes = disputes
               /\ resolveDisputeOk(sender, taskId, sender, 100)
       THEN [w EXCEPT !.disputes[taskId].status = "Resolved",
                      !.balance = resolvePayout(w.balance, sender, loserOf(task, sender),
                                                total, 0).bal,
                      !.paidOut[taskId] = @ + total,
                      !.users = withReputation(withReputation(w.users, sender, TRUE),
                                               loserOf(task, sender), FALSE)]
       ELSE IF callback = "autoResolveDispute" /\ auto.ok
       THEN [w EXCEPT !.disputes = auto.disputes, !.balance = auto.balance,
                      !.paidOut = auto.paidOut]
       ELSE w

\* what the call in progress does after its last transfer
callFinished(w, c) ==
    LET task == w.tasks[c.taskId]
    IN IF c.op = "completeTask"
       THEN [w EXCEPT !.users = withReputation(
                                    withReputation(w.users, task.selectedFreelancer, TRUE),
                                    task.client, TRUE)]
       ELSE w

\* completeTask up to its first transfer: requires passed, guard taken, status
\* written, the freelancer's task statistics updated
BeginCompleteTask(sender, taskId, tokenReverts) ==
    /\ call = NoCall
    /\ taskId \in TaskIds
    /\ completeTaskOk(sender, taskId)
    /\ tasks' = [tasks EXCEPT ![taskId].status = "Completed"]
    /\ users' = withTaskStats(users, tasks[taskId].selectedFreelancer,
                              freelancerPayment(tasks[taskId].budgetTokens, platformFee))
    /\ call' = [op |-> "completeTask", taskId |-> taskId, leg |-> 1,
                tokenReverts |-> tokenReverts]
    /\ UNCHANGED <<totalUsers, taskBids, nextTaskId, platformFee, disputeVars, ledgerVars,
                   now, upkeep, calc, matchVars, lastPerform>>

\* autoResolveDispute up to its first transfer: requires passed, the dispute
\* written Resolved
BeginAutoResolveDispute(sender, taskId, tokenReverts) ==
    /\ call = NoCall
    /\ taskId \in TaskIds
    /\ autoResolve(settlement, taskId, tokenReverts).ok
    /\ disputes' = [disputes EXCEPT ![taskId].status = "Resolved"]
    /\ call' = [op |-> "autoResolveDispute", taskId |-> taskId, leg |-> 1,
                tokenReverts |-> tokenReverts]
    /\ UNCHANGED <<userVars, taskVars, disputeArbitrator, ledgerVars, now, upkeep, calc,
                   matchVars, lastPerform>>

\* the next transfer of the call in progress, the recipient's callback during
\* it, and after the last transfer the rest of the call
TransferStep(callback) ==
    /\ call /= NoCall
    /\ LET leg == legsOf(call)[call.leg]
           last == call.leg = Len(legsOf(call))
           w1 == legApplied(world, leg, call.taskId)
           w2 == IF callback /= "none" /\ leg.to \in Users
                 THEN nestedCall(w1, call, callback, leg.to)
                 ELSE w1
           w3 == IF last THEN callFinished(w2, call) ELSE w2
       IN /\ tasks' = w3.tasks
          /\ users' = w3.users
          /\ disputes' = w3.disputes
          /\ balance' = w3.balance
          /\ paidOut' = w3.paidOut
          /\ call' = IF last THEN NoCall ELSE [call EXCEPT !.leg = @ + 1]
    /\ UNCHANGED <<totalUsers, taskBids, nextTaskId, platformFee, disputeArbitrator, locked,
                   now, upkeep, calc, matchVars, lastPerform>>

\* Tasks and disputes with the settlement calls taken transfer by transfer; a
\* transaction in progress is not interleaved with other transactions
NextReentry ==
    \/ \E user \in {"u1", "u2"} : call = NoCall /\ RegisterUser(user)
    \/ \E in \in CreateInputs :
           /\ call = NoCall
           /\ CreateTask("u1", in.titleLen, in.nSkills, in.budgetUSD, now + in.off,
                         in.price, in.approved)
    \/ \E taskId \in TaskIds, in \in BidInputs :
           /\ call = NoCall
           /\ SubmitBid("u2", taskId, in.price, tasks[taskId].deadline + in.late)
    \/ \E taskId \in TaskIds, bidIndex \in 0..MaxBids :
           call = NoCall /\ AcceptBid("u1", taskId, bidIndex)
    \/ \E sender \in {"u1", "u2"}, taskId \in TaskIds :
           call = NoCall /\ CreateDispute(sender, taskId)
    \/ call = NoCall /\ TokenTransfer(Funder, DM, FundAmount)
    \/ call = NoCall /\ Tick
    \/ \E sender \in {"u1", "u2"}, taskId \in TaskIds, tokenReverts \in BOOLEAN :
           BeginCompleteTask(sender, taskId, tokenReverts)
    \/ \E taskId \in TaskIds, tokenReverts \in BOOLEAN :
           BeginAutoResolveDispute("u3", taskId, tokenReverts)
    \/ \E callback \in Callbacks : TransferStep(callback)

ReentrySpec == Init /\ [][NextReentry]_vars

InitCalc == InitContracts /\ calc \in CalcInputs

NextCalc == CalcResolve

CalcSpec == InitCalc /\ [][NextCalc]_vars

\* ------------------------------------------------------------ matching service (backend)
\* Numbers of the scorer are kept in thousandths; NaN stands for the number
\* that 0/0 gives.
Milli == 1000

NaN == -1

EXACT_SKILL_MATCH_WEIGHT == 10
EXPERIENCE_WEIGHT == 8
REPUTATION_WEIGHT == 7
COMPLETION_RATE_WEIGHT == 6
RESPONSE_TIME_WEIGHT == 4
BudgetWeight == 3
UrgencyBonus == 10
MIN_MATCH_SCORE == 30

minOf(a, b) == IF a <= b THEN a ELSE b

SKILL_CATEGORIES ==
    {{"javascript", "typescript", "python", "react", "node.js", "web3", "solidity"},
     {"ui/ux", "graphic design", "figma", "photoshop", "illustration", "branding"},
     {"content writing", "social media", "seo", "copywriting", "email marketing"},
     {"data analysis", "excel", "sql", "python", "machine learning", "statistics"},
     {"project management", "business analysis", "consulting", "strategy"}}

relatedSkills ==
    {[base |-> "javascript",
      related |-> {"js", "react", "node.js", "typescript", "vue", "angular"}],
     [base |-> "python",
      related |-> {"django", "flask", "machine learning", "data analysis"}],
     [base |-> "design", related |-> {"ui", "ux", "graphic design", "figma", "photoshop"}],
     [base |-> "marketing", related |-> {"social media", "content", "seo", "copywriting"}],
     [base |-> "web3", related |-> {"blockchain", "solidity", "defi", "smart contracts"}]}

\* skill names as profiles and tasks give them
SkillNames == {"javascript", "java", " React", "figma", "cooking"}

\* skill.toLowerCase().trim() on SkillNames
normalized(skill) == IF skill = " React" THEN "react" ELSE skill

\* a.includes(b) for a normalized skill name and a name of the tables above, in
\* either order: "java" is the one proper substring among them
includes(a, b) == a = b \/ (a = "javascript" /\ b = "java")

areSkillsRelated(skill1, skill2) ==
    \/ \E skills \in SKILL_CATEGORIES : skill1 \in skills /\ skill2 \in skills
    \/ \E e \in relatedSkills :
           /\ includes(skill1, e.base) \/ includes(e.base, skill1)
           /\ \/ includes(skill2, e.base)
              \/ includes(e.base, skill2)
              \/ \E r \in e.related : includes(skill2, r) \/ includes(r, skill2)

\* calculateSkillScore that looks for a partial match also when there is an
\* exact one
calculateSkillScoreCountingBoth(requiredSkills, freelancerSkills) ==
    LET required == [i \in 1..Len(requiredSkills) |-> normalized(requiredSkills[i])]
        freelancer == {normalized(freelancerSkills[j]) : j \in 1..Len(freelancerSkills)}
        exactMatches == {i \in DOMAIN required : required[i] \in freelancer}
        partialMatches ==
            {i \in DOMAIN required :
                \E skill \in freelancer \ {required[i]} :
                    \/ includes(skill, required[i])
                    \/ includes(required[i], skill)
                    \/ areSkillsRelated(required[i], skill)}
        n == Len(requiredSkills)
    IN IF n = 0 THEN 100 * Milli
       ELSE minOf(100 * Milli,
                  (Cardinality(exactMatches) * 100 * Milli) \div n
                  + (Cardinality(partialMatches) * 50 * Milli) \div n)

calculateSkillScore(requiredSkills, freelancerSkills) ==
    LET required == [i \in 1..Len(requiredSkills) |-> normalized(requiredSkills[i])]
        freelancer == {normalized(freelancerSkills[j]) : j \in 1..Len(freelancerSkills)}
        exactMatches == {i \in DOMAIN required : required[i] \in freelancer}
        partialMatches ==
            {i \in DOMAIN required \ exactMatches :
                \E skill \in freelancer :
                    \/ includes(skill, required[i])
                    \/ includes(required[i], skill)
                    \/ areSkillsRelated(required[i], skill)}
        n == Len(requiredSkills)
    IN IF n = 0 THEN 100 * Milli
       ELSE minOf(100 * Milli,
                  (Cardinality(exactMatches) * 100 * Milli) \div n
                  + (Cardinality(partialMatches) * 50 * Milli) \div n)

\* (Math.log(completedTasks + 1) / Math.log(51)) * 100, in thousandths, for the
\* completedTasks values of the profiles drawn
logScale(completedTasks) ==
    CASE completedTasks = 1 -> 17629
      [] completedTasks = 15 -> 70517
      [] completedTasks = 22 -> 79747

calculateExperienceScore(completedTasks) ==
    IF completedTasks = 0 THEN 0
    ELSE IF completedTasks >= 50 THEN 100 * Milli
    ELSE minOf(100 * Milli, logScale(completedTasks))

calculateResponseTimeScore(responseTimeHours) ==
    IF responseTimeHours <= 1 THEN 100 * Milli
    ELSE IF responseTimeHours <= 4 THEN 90 * Milli
    ELSE IF responseTimeHours <= 12 THEN 75 * Milli
    ELSE IF responseTimeHours <= 24 THEN 60 * Milli
    ELSE IF responseTimeHours <= 48 THEN 40 * Milli
    ELSE 20 * Milli

\* Math.min(taskBudget / avgTaskValue, avgTaskValue / taskBudget) * 100.  With
\* an earnings history avgTaskValue is positive and a zero budget gives
\* min(0, Infinity) = 0; without one avgTaskValue is taskBudget itself, and a
\* zero budget gives 0/0.
calculateBudgetCompatibility(taskBudget, freelancer) ==
    IF freelancer.totalEarned > 0 /\ freelancer.completedTasks > 0
    THEN IF taskBudget = 0 THEN 0
         ELSE minOf((taskBudget * freelancer.completedTasks * 100 * Milli)
                        \div freelancer.totalEarned,
                    (freelancer.totalEarned * 100 * Milli)
                        \div (freelancer.completedTasks * taskBudget))
    ELSE IF taskBudget = 0 THEN NaN
         ELSE 100 * Milli

calculateMatchScore(criteria, freelancer) ==
    LET skillScore == calculateSkillScore(criteria.requiredSkills, freelancer.skills)
        reputationScore == minOf(freelancer.reputation, 100) * Milli
        experienceScore == calculateExperienceScore(freelancer.completedTasks)
        successScore == minOf(freelancer.successRate, 100) * Milli
        responseScore == calculateResponseTimeScore(freelancer.responseTime)
        bonus == IF criteria.isUrgent /\ freelancer.responseTime <= 2
                 THEN UrgencyBonus * Milli ELSE 0
        budgetScore == calculateBudgetCompatibility(criteria.budgetUSD, freelancer)
        totalScore == skillScore * EXACT_SKILL_MATCH_WEIGHT
                      + reputationScore * REPUTATION_WEIGHT
                      + experienceScore * EXPERIENCE_WEIGHT
                      + successScore * COMPLETION_RATE_WEIGHT
                      + responseScore * RESPONSE_TIME_WEIGHT
                      + bonus
                      + budgetScore * BudgetWeight
        maxPossibleScore == 100 * (EXACT_SKILL_MATCH_WEIGHT + REPUTATION_WEIGHT
                                   + EXPERIENCE_WEIGHT + COMPLETION_RATE_WEIGHT
                                   + RESPONSE_TIME_WEIGHT + BudgetWeight)
    IN IF budgetScore = NaN THEN NaN
       ELSE minOf(100 * Milli, (totalScore * 100) \div maxPossibleScore)

\* a sort step that puts a match in front of the matches of equal score
insertByScoreBeforeTies(sorted, match) ==
    LET k == Cardinality({j \in 1..Len(sorted) : sorted[j].score > match.score})
    IN SubSeq(sorted, 1, k) \o <<match>> \o SubSeq(sorted, k + 1, Len(sorted))

\* one step of the stable sort by (a, b) => b.score - a.score: the match goes
\* behind every match already placed whose score is not lower
insertByScore(sorted, match) ==
    LET k == Cardinality({j \in 1..Len(sorted) : sorted[j].score >= match.score})
    IN SubSeq(sorted, 1, k) \o <<match>> \o SubSeq(sorted, k + 1, Len(sorted))

RECURSIVE sortedByScore(_)
sortedByScore(matches) ==
    IF matches = <<>> THEN <<>>
    ELSE insertByScore(sortedByScore(SubSeq(matches, 1, Len(matches) - 1)),
                       matches[Len(matches)])

\* NaN >= x is false
reachesMinimum(match) == match.score /= NaN /\ match.score >= MIN_MATCH_SCORE * Milli

\* findMatches over the profiles getAllFreelancers returns; a freelancer's
\* address is its place in that list
findMatches(criteria, allFreelancers, maxResults) ==
    LET scoredMatches ==
            [i \in 1..Len(allFreelancers) |->
                [freelancer |-> i,
                 score |-> calculateMatchScore(criteria, allFreelancers[i])]]
        sorted == sortedByScore(SelectSeq(scoredMatches, reachesMinimum))
    IN SubSeq(sorted, 1, minOf(maxResults, Len(sorted)))

SkillLists == {<<>>, <<"javascript", " React">>, <<"java">>, <<"figma">>, <<"cooking">>}

Profile(skills, reputation, completedTasks, successRate, responseTime, totalEarned) ==
    [skills |-> skills, reputation |-> reputation, completedTasks |-> completedTasks,
     successRate |-> successRate, responseTime |-> responseTime,
     totalEarned |-> totalEarned]

\* two of the service's own profiles, and one with nothing to show
ProfileChoices ==
    {Profile(<<"javascript", " React">>, 85, 15, 93, 2, 0),
     Profile(<<"figma">>, 88, 22, 91, 3, 0),
     Profile(<<"cooking">>, 0, 0, 0, 72, 0)}

ProfileLists == UNION {[1..n -> ProfileChoices] : n \in 0..MaxCandidates}

CriteriaChoices ==
    [requiredSkills : SkillLists, budgetUSD : {0, 5, 100}, isUrgent : BOOLEAN]

FindInputs ==
    [phase : {"input"},
     criteria : {c \in CriteriaChoices : c.requiredSkills \in {<<>>, <<"javascript", " React">>}},
     freelancers : ProfileLists, maxResults : 0..MaxResults, result : {<<>>}]

FindMatches ==
    /\ calc.phase = "input"
    /\ calc' = [calc EXCEPT !.phase = "done",
                            !.result = findMatches(calc.criteria, calc.freelancers,
                                                   calc.maxResults)]
    /\ UNCHANGED <<userVars, taskVars, disputeVars, ledgerVars, now, upkeep, matchVars, auxVars>>

InitFind == InitContracts /\ calc \in FindInputs

FindSpec == InitFind /\ [][FindMatches]_vars

SkillInputLists == UNION {[1..n -> SkillNames] : n \in 0..MaxSkills}

SkillInputs ==
    [phase : {"input"}, requiredSkills : SkillInputLists,
     freelancerSkills : SkillInputLists, score : {0}]

CalculateSkillScore ==
    /\ calc.phase = "input"
    /\ calc' = [calc EXCEPT !.phase = "done",
                            !.score = calculateSkillScore(calc.requiredSkills,
                                                          calc.freelancerSkills)]
    /\ UNCHANGED <<userVars, taskVars, disputeVars, ledgerVars, now, upkeep, matchVars, auxVars>>

InitSkill == InitContracts /\ calc \in SkillInputs

SkillSpec == InitSkill /\ [][CalculateSkillScore]_vars

ScoreInputs ==
    [phase : {"input"}, criteria : CriteriaChoices,
     freelancer : [skills : SkillLists, reputation : {0, 85, 150},
                   completedTasks : {0, 15, 50}, successRate : {0, 100},
                   responseTime : {1, 3, 72}, totalEarned : {0, 100, 7500}],
     score : {0}]

CalculateMatchScore ==
    /\ calc.phase = "input"
    /\ calc' = [calc EXCEPT !.phase = "done",
                            !.score = calculateMatchScore(calc.criteria, calc.freelancer)]
    /\ UNCHANGED <<userVars, taskVars, disputeVars, ledgerVars, now, upkeep, matchVars, auxVars>>

InitScore == InitContracts /\ calc \in ScoreInputs

ScoreSpec == InitScore /\ [][CalculateMatchScore]_vars

\* ------------------------------------------------------------ properties
escrowOf(t) == tasks[t].budgetTokens + tasks[t].clientStake

custody(t) == locked[t] - paidOut[t]

bidsWith(t, status) == {i \in 1..Len(taskBids[t]) : taskBids[t][i].status = status}

hasOpenDispute(t) == disputes[t].createdAt > 0 /\ disputes[t].status = "Open"

disputeTimedOut(t) == now > disputes[t].createdAt + DISPUTE_TIMEOUT

\* C1: for every task, what createTask locked minus what has been paid out for
\* it equals budgetTokens + clientStake while the status is not terminal, and
\* 0 once the status is Completed or Cancelled.
C1_CustodyInvariant ==
    \A t \in TaskIds :
        taskExists(t) =>
            IF tasks[t].status \in {"Completed", "Cancelled"}
            THEN custody(t) = 0
            ELSE custody(t) = escrowOf(t)

\* C2: a task never has more than one Accepted bid, and never an Accepted bid
\* together with a bid that is still Pending.
C2_ExclusiveAcceptance ==
    \A t \in TaskIds :
        /\ Cardinality(bidsWith(t, "Accepted")) <= 1
        /\ bidsWith(t, "Accepted") /= {} => bidsWith(t, "Pending") = {}

C2_Witness ==
    \E t \in TaskIds :
        /\ tasks[t].status = "Assigned"
        /\ bidsWith(t, "Accepted") /= {}
        /\ bidsWith(t, "Rejected") /= {}

\* C3: under the running sweep and advancing time, an Open dispute whose
\* 14-day timeout has passed is eventually Resolved.
C3_SweepResolves ==
    \A t \in TaskIds :
        (hasOpenDispute(t) /\ disputeTimedOut(t)) ~> (disputes[t].status = "Resolved")

\* C4: when performUpkeep processes an entry that is an Open task past its
\* deadline, the task becomes Cancelled and its client receives
\* budgetTokens + clientStake.
C4_ExpiredRefund ==
    [][\A t \in TaskIds, tokenReverts \in BOOLEAN :
          ( /\ PerformUpkeep(tokenReverts)
            /\ \E i \in 1..Len(upkeep.batch) : upkeep.batch[i] = t
            /\ taskExists(t)
            /\ tasks[t].status = "Open"
            /\ now > tasks[t].deadline )
          => /\ tasks'[t].status = "Cancelled"
             /\ balance'[tasks[t].client] = balance[tasks[t].client] + escrowOf(t)]_vars

\* C5: every registered user's reputation is between 1 and 100.
C5_ReputationRange ==
    \A a \in Addrs :
        users[a].registered => users[a].reputation >= 1 /\ users[a].reputation <= 100

C5_Witness ==
    \E a, b \in Addrs :
        /\ users[a].registered /\ users[a].reputation = 100
        /\ users[b].registered /\ users[b].reputation = 1

\* C6: a completeTask that succeeds pays the freelancer budgetTokens minus the
\* floored fee, the platform account the floored fee and the client the
\* stake, out of the TaskManager's balance; payment plus fee is budgetTokens.
C6_CompletePayout ==
    [][\A t \in TaskIds :
          (tasks[t].status /= "Completed" /\ tasks'[t].status = "Completed")
          => LET task == tasks[t]
                 fee == (task.budgetTokens * platformFee) \div 10000
                 pay == task.budgetTokens - fee
             IN /\ pay >= 0
                /\ pay + fee = task.budgetTokens
                /\ balance' = [a \in Addrs |->
                       balance[a]
                       + (IF a = task.selectedFreelancer THEN pay ELSE 0)
                       + (IF a = Main THEN fee ELSE 0)
                       + (IF a = task.client THEN task.clientStake ELSE 0)
                       - (IF a = TM THEN task.budgetTokens + task.clientStake ELSE 0)]]_vars

C6_Witness ==
    \E t \in TaskIds :
        /\ tasks[t].status = "Completed"
        /\ balance[Main] > 0
        /\ (tasks[t].budgetTokens * platformFee) % 10000 /= 0

\* C7: for every percentage in 0..100, resolveDispute's winnerAmount is
\* floor(total * pct / 100), loserAmount is total - winnerAmount, neither is
\* negative and they add up to budgetTokens + clientStake.
C7_SplitExact ==
    calc.phase = "done" =>
        LET total == calc.tokens + (calc.tokens \div 10)
        IN /\ calc.winnerAmount * 100 <= total * calc.pct
           /\ (calc.winnerAmount + 1) * 100 > total * calc.pct
           /\ calc.loserAmount = total - calc.winnerAmount
           /\ calc.winnerAmount >= 0 /\ calc.loserAmount >= 0
           /\ calc.winnerAmount + calc.loserAmount = total

C7_Witness ==
    /\ calc.phase = "done"
    /\ calc.pct = 60
    /\ (CalcTotal * calc.pct) % 100 /= 0

\* C8: on an Assigned task with an Open dispute, the arbitrator's
\* resolveDispute for the client or the freelancer with a percentage in
\* 0..100 succeeds (stated for 60%, and for a DisputeManager that holds
\* enough tokens to pay both parties).
C8_ResolveSucceeds ==
    \A t \in TaskIds :
        (tasks[t].status = "Assigned" /\ hasOpenDispute(t) /\ balance[DM] >= escrowOf(t))
        => \A winner \in {tasks[t].client, tasks[t].selectedFreelancer} :
              resolveDisputeOk(disputeArbitrator, t, winner, 60)

\* C9: an autoResolveDispute that succeeds on a created dispute pays the
\* client floor(70% of budgetTokens + clientStake) and the selected
\* freelancer the remainder, and marks the dispute Resolved.
C9_AutoSplit ==
    [][\A t \in TaskIds :
          (hasOpenDispute(t) /\ disputes'[t].status = "Resolved")
          => LET total == escrowOf(t)
                 clientAmount == (total * 70) \div 100
             IN /\ balance'[tasks[t].client] = balance[tasks[t].client] + clientAmount
                /\ balance'[tasks[t].selectedFreelancer] =
                       balance[tasks[t].selectedFreelancer] + (total - clientAmount)]_vars

\* C10: autoResolveDispute leaves every user's reputation, completedTasks and
\* totalEarned unchanged: no step that changes a user's record is an
\* autoResolveDispute.
C10_AutoResolveFrame ==
    [][\A sender \in Senders, t \in TaskIds, tokenReverts \in BOOLEAN :
          users' /= users => ~AutoResolveDispute(sender, t, tokenReverts)]_vars

C10_Witness ==
    \E t \in TaskIds :
        /\ disputes[t].createdAt > 0
        /\ disputes[t].status = "Resolved"
        /\ paidOut[t] = escrowOf(t)
        /\ users[tasks[t].client].reputation = DEFAULT_REPUTATION

\* C11: a step that turns a task's dispute from Open to Resolved happens only
\* for a dispute that was created, and only after createdAt + 14 days.
C11_AutoResolveGuard ==
    [][\A t \in TaskIds :
          (disputes[t].status = "Open" /\ disputes'[t].status = "Resolved")
          => /\ disputes[t].createdAt > 0
             /\ now > disputes[t].createdAt + 14]_vars

\* C12: a dispute is created only by the task's client or selected freelancer,
\* only while the task is Assigned, InProgress or UnderReview, and only when
\* the task has no dispute yet; it starts Open and nothing else changes.  A
\* dispute that exists is never created again, so a task has at most one.
C12_CreateDisputeGuard ==
    [][\A t \in TaskIds :
          /\ disputes[t].createdAt > 0
             => /\ disputes'[t].createdAt = disputes[t].createdAt
                /\ disputes'[t].initiator = disputes[t].initiator
          /\ (disputes[t].createdAt = 0 /\ disputes'[t].createdAt > 0)
             => /\ disputes'[t].initiator \in {tasks[t].client, tasks[t].selectedFreelancer}
                /\ disputes'[t].initiator /= Zero
                /\ tasks[t].status \in {"Assigned", "InProgress", "UnderReview"}
                /\ disputes'[t].status = "Open"
                /\ disputes'[t].createdAt = now]_vars

C12_Witness ==
    \E t \in TaskIds :
        /\ disputes[t].createdAt > 0
        /\ disputes[t].status = "Open"
        /\ disputes[t].initiator = tasks[t].selectedFreelancer
        /\ tasks[t].status = "Assigned"
        /\ now > disputes[t].createdAt

\* C13: a task on which a dispute has been raised has status Disputed.
C13_DisputedStatus ==
    \A t \in TaskIds : disputes[t].createdAt > 0 => tasks[t].status = "Disputed"

\* C14: no step that changes a task, a bid, a balance or a user is an
\* acceptBid or a completeTask called by anyone but the task's client.
C14_OnlyClient ==
    [][(taskVars' /= taskVars \/ ledgerVars' /= ledgerVars \/ userVars' /= userVars)
       => \A t \in TaskIds :
             \A sender \in Senders \ {tasks[t].client} :
                /\ \A refusedLeg \in TransferLegs : ~CompleteTask(sender, t, refusedLeg)
                /\ \A bidIndex \in 0..MaxBids : ~AcceptBid(sender, t, bidIndex)]_vars

C14_Witness ==
    \E t \in TaskIds :
        /\ tasks[t].status = "Completed"
        /\ isUserRegistered(tasks[t].selectedFreelancer)
        /\ tasks[t].selectedFreelancer /= tasks[t].client
        /\ isUserRegistered(Main)

\* C15: selectedFreelancer is unset while the task is Open, is set by the
\* step that takes the task out of Open to the freelancer of the bid that
\* step accepts, and once set never changes.
C15_SelectedOnce ==
    [][\A t \in TaskIds :
          /\ tasks'[t].status = "Open" => tasks'[t].selectedFreelancer = Zero
          /\ tasks[t].selectedFreelancer /= Zero
             => tasks'[t].selectedFreelancer = tasks[t].selectedFreelancer
          /\ (tasks[t].status = "Open" /\ tasks'[t].status /= "Open")
             => \E i \in 1..Len(taskBids[t]) :
                   /\ taskBids[t][i].status = "Pending"
                   /\ taskBids'[t][i].status = "Accepted"
                   /\ taskBids[t][i].freelancer /= Zero
                   /\ tasks'[t].selectedFreelancer = taskBids[t][i].freelancer
          /\ (tasks[t].selectedFreelancer = Zero /\ tasks'[t].selectedFreelancer /= Zero)
             => tasks[t].status = "Open" /\ tasks'[t].status = "Assigned"]_vars

C15_Witness ==
    \E t \in TaskIds :
        /\ tasks[t].status = "Completed"
        /\ tasks[t].selectedFreelancer = "u3"
        /\ aiMatchingEnabled[t]
        /\ Len(taskMatches[t]) > 0
        /\ taskMatches[t][1].freelancer = "u2"

\* C16: for every task and every freelancer, at most one bid of that
\* freelancer on that task is Pending.
C16_OnePendingBid ==
    \A t \in TaskIds :
        \A i, j \in 1..Len(taskBids[t]) :
            ( /\ i /= j
              /\ taskBids[t][i].freelancer = taskBids[t][j].freelancer
              /\ taskBids[t][i].status = "Pending" )
            => taskBids[t][j].status /= "Pending"

C16_Witness ==
    \E t \in TaskIds :
        /\ Len(taskBids[t]) = 2
        /\ taskBids[t][1].status = "Pending"
        /\ taskBids[t][2].status = "Pending"
        /\ now > StartTime

\* C17: a step that stores a bid appends exactly one Pending bid to an Open
\* task, from a registered user who is not the task's client, with
\* 0 < proposedPrice <= budgetUSD, estimatedDelivery <= deadline, at a time
\* no later than deadline - 7 days; every stored bid keeps these values.
C17_BidAdmission ==
    [][\A t \in TaskIds :
          /\ Len(taskBids'[t]) >= Len(taskBids[t])
          /\ \A i \in 1..Len(taskBids[t]) :
                /\ taskBids'[t][i].freelancer = taskBids[t][i].freelancer
                /\ taskBids'[t][i].proposedPrice = taskBids[t][i].proposedPrice
                /\ taskBids'[t][i].estimatedDelivery = taskBids[t][i].estimatedDelivery
          /\ Len(taskBids'[t]) > Len(taskBids[t])
             => LET bid == taskBids'[t][Len(taskBids'[t])]
                IN /\ Len(taskBids'[t]) = Len(taskBids[t]) + 1
                   /\ t < nextTaskId
                   /\ tasks[t].status = "Open"
                   /\ users[bid.freelancer].registered
                   /\ bid.freelancer /= tasks[t].client
                   /\ bid.proposedPrice > 0
                   /\ bid.proposedPrice <= tasks[t].budgetUSD
                   /\ bid.estimatedDelivery <= tasks[t].deadline
                   /\ now + 7 <= tasks[t].deadline
                   /\ bid.status = "Pending"]_vars

C17_Witness ==
    \E t \in TaskIds :
        /\ Len(taskBids[t]) = 2
        /\ taskBids[t][1].freelancer = Main
        /\ taskBids[t][2].status = "Accepted"
        /\ now = tasks[t].deadline - BID_DEADLINE

\* a createTask call that the claim C18 lists as failing: unregistered
\* client, empty title, zero budget, deadline not in the future, no skill,
\* price <= 0, or a transfer from the client that cannot succeed
createTaskRejected(sender, in) ==
    \/ ~users[sender].registered
    \/ in.titleLen = 0
    \/ in.budgetUSD = 0
    \/ in.off <= 0
    \/ in.nSkills = 0
    \/ in.price <= 0
    \/ ~in.approved
    \/ sender \notin Users
    \/ LET budgetTokens == (in.budgetUSD * 1000000) \div in.price
       IN balance[sender] < budgetTokens + (budgetTokens \div 10)

\* C18: no step that creates a task, consumes a task id or moves funds is a
\* createTask with an unregistered client, an empty title, a zero budget, a
\* deadline not in the future, no skill, a price <= 0 or a failing transfer.
C18_CreateAllOrNothing ==
    [][(taskVars' /= taskVars \/ ledgerVars' /= ledgerVars)
       => \A sender \in {"u1", Main}, in \in CreateInputs :
             createTaskRejected(sender, in)
             => ~CreateTask(sender, in.titleLen, in.nSkills, in.budgetUSD, now + in.off,
                            in.price, in.approved)]_vars

C18_Witness ==
    /\ isUserRegistered("u1")
    /\ isUserRegistered(Main)
    /\ nextTaskId = 1
    /\ balance[TM] = 0
    /\ balance["u1"] = InitialBalance
    /\ now > StartTime

\* C19: a createTask that succeeds stores budgetTokens = floor(budgetUSD * 1e6
\* / price) and clientStake = floor(budgetTokens / 10) with status Open, and
\* moves exactly budgetTokens + clientStake from the client into custody;
\* budgetUSD 100 at price 1 gives 100e6 and 10e6.
C19_CreateAmounts ==
    [][/\ usdToToken(100, 1) = 100000000
       /\ clientStakeOf(usdToToken(100, 1)) = 10000000
       /\ nextTaskId' /= nextTaskId
          => \A sender \in {"u1", Main}, in \in CreateInputs :
                CreateTask(sender, in.titleLen, in.nSkills, in.budgetUSD, now + in.off,
                           in.price, in.approved)
                => LET task == tasks'[nextTaskId]
                       total == task.budgetTokens + task.clientStake
                   IN /\ nextTaskId' = nextTaskId + 1
                      /\ task.client = sender
                      /\ task.status = "Open"
                      /\ task.budgetUSD = in.budgetUSD
                      /\ task.budgetTokens * in.price <= in.budgetUSD * 1000000
                      /\ (task.budgetTokens + 1) * in.price > in.budgetUSD * 1000000
                      /\ task.clientStake * 10 <= task.budgetTokens
                      /\ (task.clientStake + 1) * 10 > task.budgetTokens
                      /\ balance'[TM] = balance[TM] + total
                      /\ balance'[sender] = balance[sender] - total
                      /\ locked'[nextTaskId] - paidOut'[nextTaskId] = total]_vars

C19_Witness ==
    \E t \in TaskIds :
        /\ t < nextTaskId
        /\ tasks[t].status = "Open"
        /\ tasks[t].budgetTokens = 233
        /\ tasks[t].clientStake = 23
        /\ balance[TM] = 256
        /\ balance[tasks[t].client] = InitialBalance - 256

\* C20: no step that changes a task, a balance or a user is a completeTask in
\* which the token refuses one of the three transfers.
C20_CompleteAllOrNothing ==
    [][(taskVars' /= taskVars \/ ledgerVars' /= ledgerVars \/ userVars' /= userVars)
       => \A t \in TaskIds, sender \in Senders, refusedLeg \in TransferLegs \ {0} :
             ~CompleteTask(sender, t, refusedLeg)]_vars

C20_Witness ==
    \E t \in TaskIds :
        /\ tasks[t].status = "Assigned"
        /\ completeTaskOk(tasks[t].client, t)
        /\ balance[TM] = escrowOf(t)
        /\ paidOut[t] = 0
        /\ users[tasks[t].selectedFreelancer].completedTasks = 0

C23_ResolveAllOrNothing ==
    [][\A t \in TaskIds :
          (disputes[t].status = "Open" /\ disputes[t].createdAt > 0
           /\ disputes'[t].status = "Resolved")
          => /\ balance'[DM] = balance[DM] - escrowOf(t)
             /\ paidOut'[t] = paidOut[t] + escrowOf(t)]_vars

C25_CheckUpkeepAnswer ==
    LET answer == checkUpkeep
    IN /\ Len(answer.batch) <= 10
       /\ answer.needed <=> Len(answer.batch) > 0
       /\ \A i \in 1..Len(answer.batch) :
             LET t == answer.batch[i]
             IN /\ t \in TaskIds
                /\ t < nextTaskId
                /\ \/ tasks[t].status = "Open" /\ now > tasks[t].deadline
                   \/ /\ tasks[t].status = "Disputed"
                      /\ disputes[t].createdAt > 0
                      /\ now > disputes[t].createdAt + 14

\* an entry of a performUpkeep batch that qualifies for the sweep: an existing
\* task that is Open past its deadline, or has an Open dispute older than 14 days
entryQualifies(t) ==
    /\ t \in TaskIds
    /\ t < nextTaskId
    /\ \/ tasks[t].status = "Open" /\ now > tasks[t].deadline
       \/ disputes[t].createdAt > 0 /\ disputes[t].status = "Open"
          /\ now > disputes[t].createdAt + 14

\* C26: a performUpkeep over any batch goes through every entry of it (no
\* entry aborts the call), and when no entry of the batch qualifies it
\* changes no task, dispute, balance or user.
C26_PerformRevalidates ==
    [][(lastPerform' /= lastPerform /\ ~lastPerform'.reverted)
       => /\ Len(lastPerform'.log) = lastPerform'.count
          /\ (\A i \in 1..lastPerform'.count : ~entryQualifies(lastPerform'.batch[i]))
             => UNCHANGED <<userVars, taskVars, disputeVars, ledgerVars>>]_vars

C26_Witness ==
    \E t \in TaskIds :
        /\ tasks[t].status = "Assigned"
        /\ disputes[t].createdAt > 0
        /\ now <= disputes[t].createdAt + DISPUTE_TIMEOUT
        /\ lastPerform.batch = <<t, MaxTasks + 1>>
        /\ lastPerform.count = 2
        /\ lastPerform.log = <<"none", "refund">>

\* C22: while completeTask, resolveDispute or autoResolveDispute is in
\* progress, a call back into one of the three by the recipient of a transfer
\* fails: the step pays out of the task's escrow no more than the transfer
\* itself and changes no task's and no dispute's status.
C22_NestedCallFails ==
    [][call /= NoCall
       => /\ paidOut'[call.taskId] <= paidOut[call.taskId] + legsOf(call)[call.leg].amount
          /\ \A t \in TaskIds : /\ tasks'[t].status = tasks[t].status
                                /\ disputes'[t].status = disputes[t].status]_vars

\* the checks the claim names, on a list handed to submitAIMatches for task t
listAdmissible(t, matches) ==
    /\ Len(matches) >= 1
    /\ Len(matches) <= 10
    /\ \A i \in 1..Len(matches) :
           /\ matches[i].score <= 100
           /\ matches[i].freelancer /= Zero
           /\ isUserRegistered(matches[i].freelancer)
    /\ getTask(t).status = "Open"
    /\ aiMatchingEnabled[t]

C30_ScoreRange ==
    calc.phase = "done" => calc.score /= NaN /\ calc.score >= 0 /\ calc.score <= 100 * Milli

\* C31: a step that changes a registered user's record by updateReputation
\* sets the reputation r to 100 (positive, r >= 95), r + 5 (positive, r < 95),
\* 1 (negative, r <= 5) or r - 5 (negative, r > 5), leaves the user's other
\* fields and every other user alone; an unregistered user's record changes
\* only by registration.
C31_UpdateReputationMap ==
    [][\A a \in Addrs :
          users'[a] /= users[a]
          => \/ ~users[a].registered /\ users'[a].registered
             \/ /\ users[a].registered
                /\ \E positive \in BOOLEAN :
                       LET r == users[a].reputation
                           expected == IF positive /\ r >= 95 THEN 100
                                       ELSE IF positive THEN r + 5
                                       ELSE IF r <= 5 THEN 1
                                       ELSE r - 5
                       IN users'[a] = [users[a] EXCEPT !.reputation = expected]
                /\ \A b \in Addrs \ {a} : users'[b] = users[b]]_vars

C31_Witness ==
    \E a, b \in Addrs :
        /\ users[a].registered /\ users[a].reputation = 96
        /\ users[b].registered /\ users[b].reputation = 1

\* C32: a user's completedTasks and totalEarned change only in a step that
\* completes a task whose selected freelancer is that user, by 1 and by the
\* freelancer payment.
C32_StatsOnlyByCompletion ==
    [][\A a \in Addrs :
          (users'[a].completedTasks /= users[a].completedTasks
           \/ users'[a].totalEarned /= users[a].totalEarned)
          => \E t \in TaskIds :
                 /\ tasks[t].status /= "Completed"
                 /\ tasks'[t].status = "Completed"
                 /\ tasks[t].selectedFreelancer = a
                 /\ users'[a].completedTasks = users[a].completedTasks + 1
                 /\ users'[a].totalEarned = users[a].totalEarned
                        + (tasks[t].budgetTokens
                           - (tasks[t].budgetTokens * platformFee) \div 10000)]_vars

\* C33: createTask, submitBid, acceptBid, completeTask and createDispute
\* invoked by user U through SwiftyTaskMain pass or fail their checks as they
\* do for U itself.
C33_CallerIdentity ==
    \A U \in Users, t \in TaskIds :
        /\ \A in \in CreateInputs :
               createTaskOk(U, in.titleLen, in.nSkills, in.budgetUSD, now + in.off,
                            in.price, in.approved)
               <=> createTaskOk(msgSenderVia(U), in.titleLen, in.nSkills, in.budgetUSD,
                                now + in.off, in.price, in.approved)
        /\ \A in \in BidInputs :
               submitBidOk(U, t, in.price, tasks[t].deadline + in.late)
               <=> submitBidOk(msgSenderVia(U), t, in.price, tasks[t].deadline + in.late)
        /\ \A bidIndex \in 0..MaxBids :
               acceptBidOk(U, t, bidIndex) <=> acceptBidOk(msgSenderVia(U), t, bidIndex)
        /\ completeTaskOk(U, t) <=> completeTaskOk(msgSenderVia(U), t)
        /\ createDisputeOk(U, t) <=> createDisputeOk(msgSenderVia(U), t)

\* C34: what a dispute's resolution pays out for a task leaves the account
\* that createTask locked the task's escrow in, the TaskManager's.
C34_PayoutFromEscrow ==
    [][\A t \in TaskIds :
          (disputes[t].status = "Open" /\ disputes'[t].status = "Resolved")
          => balance'[TM] = balance[TM] - (paidOut'[t] - paidOut[t])]_vars

\* C35: while a task has an Open dispute, no step completes the task.
C35_NoCompletionUnderDispute ==
    [][\A t \in TaskIds :
          (disputes[t].createdAt > 0 /\ disputes[t].status = "Open")
          => ~(tasks[t].status /= "Completed" /\ tasks'[t].status = "Completed")]_vars

\* C36: a dispute whose status is Resolved stays Resolved, and no step pays
\* out for it again.
C36_ResolvedOnce ==
    [][\A t \in TaskIds :
          disputes[t].status = "Resolved"
          => /\ disputes'[t].status = "Resolved"
             /\ balance'[DM] >= balance[DM]]_vars

\* C37: a task is Open exactly when none of its bids is Accepted; a task that
\* is not Open has exactly one Accepted bid, placed by its selectedFreelancer,
\* a registered user other than the client, and has no Pending bid.
C37_StatusAndBids ==
    \A t \in TaskIds :
        LET accepted == {i \in 1..Len(taskBids[t]) : taskBids[t][i].status = "Accepted"}
            pending == {i \in 1..Len(taskBids[t]) : taskBids[t][i].status = "Pending"}
        IN /\ tasks[t].status = "Open" <=> accepted = {}
           /\ tasks[t].status /= "Open"
              => /\ Cardinality(accepted) = 1
                 /\ \A i \in accepted :
                        /\ taskBids[t][i].freelancer = tasks[t].selectedFreelancer
                        /\ users[taskBids[t][i].freelancer].registered
                        /\ taskBids[t][i].freelancer /= tasks[t].client
                 /\ pending = {}

C37_Witness ==
    \E t \in TaskIds :
        /\ tasks[t].status = "Completed"
        /\ Len(taskBids[t]) = 2
        /\ taskBids[t][1].status = "Rejected"
        /\ taskBids[t][2].status = "Accepted"
        /\ tasks[t].selectedFreelancer = "u3"

C39_FeeBound ==
    [][/\ platformFee' <= 1000
       /\ \A t \in TaskIds :
              (tasks'[t].budgetTokens * platformFee') \div 10000 <= tasks'[t].budgetTokens
       /\ platformFee' /= platformFee
          => \E newFee \in FeeChoices :
                 /\ UpdatePlatformFee(Deployer, TRUE, newFee)
                 /\ newFee <= 1000
                 /\ platformFee' = newFee
                 /\ \A caller \in {Deployer, "u1"}, viaMain \in BOOLEAN :
                        UpdatePlatformFee(caller, viaMain, newFee)
                        => caller = Deployer /\ viaMain]_vars

C39_Witness ==
    \E t \in TaskIds :
        /\ platformFee = 1000
        /\ tasks[t].status = "Completed"
        /\ balance[Main] = (tasks[t].budgetTokens * 1000) \div 10000
        /\ balance[Main] > 0

\* C40: for n > 0 required skills of which e match a skill of the freelancer
\* exactly and p match one only partially, calculateSkillScore gives
\* min(100, 100 e/n + 50 p/n); 0 when nothing matches, 100 when all match
\* exactly.
C40_SkillScoreValue ==
    calc.phase = "done"
    => LET n == Len(calc.requiredSkills)
           has == {normalized(calc.freelancerSkills[j]) : j \in 1..Len(calc.freelancerSkills)}
           req(i) == normalized(calc.requiredSkills[i])
           exact == {i \in 1..n : req(i) \in has}
           partial == {i \in 1..n :
                          /\ req(i) \notin has
                          /\ \E skill \in has : \/ includes(skill, req(i))
                                                \/ includes(req(i), skill)
                                                \/ areSkillsRelated(req(i), skill)}
           e == Cardinality(exact)
           p == Cardinality(partial)
           value == (100 * Milli * e) \div n + (50 * Milli * p) \div n
       IN n > 0
          => /\ calc.score = IF value > 100 * Milli THEN 100 * Milli ELSE value
             /\ (e = 0 /\ p = 0) => calc.score = 0
             /\ e = n => calc.score = 100 * Milli

C40_Witness ==
    /\ calc.phase = "done"
    /\ calc.requiredSkills = <<"javascript", " React">>
    /\ calc.freelancerSkills = <<"java", "javascript">>
    /\ calc.score = 75 * Milli
====
